---- MODULE Spec2Model ----
(***************************************************************************)
(* A model of the two utilities of the repository:                         *)
(*   - buffered_read (src/io_snippets.py, src/io.py): a generator that     *)
(*     reads a text stream in chunks and yields it one character at a time *)
(*   - Vector2 (src/snippets/vector2.py): an immutable 2D float vector.    *)
(* SpecRead is the state machine of one buffered_read generator and its    *)
(* consumer; SpecVec is the state machine of a heap of Vector2 objects on  *)
(* which a caller invokes the class's methods.                             *)
(***************************************************************************)
EXTENDS Integers, Sequences, FiniteSets, TLC

VARIABLES
    file,      \* the characters of the stream (fixed content of the TextIO)
    bufsize,   \* the bufsize argument
    pos,       \* the stream position: characters read from the stream so far
    buf,       \* the generator's local `buf`
    bi,        \* the index in buf of the next character the inner loop yields
    pc,        \* where the generator stands
    out,       \* the characters yielded to the consumer, in order
    reads,     \* how many times file.read was called
    emptyReads \* how many of these calls returned the empty string

VARIABLES
    heap,      \* the live Vector2 objects: heap[i] = [x |-> ..., y |-> ...]
    ctor,      \* ctor[i]: the components object i was constructed with
    held,      \* the caller holds objects 1..held; a later one is the result
               \* of the call in `last`
    last       \* the call just made, until the caller lets go of its result:
               \* [op, self, arg, out]

rvars == <<file, bufsize, pos, buf, bi, pc, out, reads, emptyReads>>

vvars == <<heap, ctor, held, last>>

vars == <<rvars, vvars>>

(***************************************************************************)
(* Bounds of the model.                                                    *)
(***************************************************************************)
MaxLen == 4      \* longest stream
MaxBuf == 3      \* largest bufsize
MaxVecs == 2     \* Vector2 objects the caller constructs and keeps
MaxIdx == 3      \* indices -MaxIdx..MaxIdx are tried on __getitem__
FBits == 3       \* significand bits of the model's floats (binary64: 53)
FFrac == 2       \* the smallest positive float is 2^-FFrac (binary64: 2^-1074)
FExp == 3        \* the largest float is (2^FBits - 1) * 2^(FExp - FFrac)

Chars == {"a", "b"}

\* Python values: every value carries its type tag t.
None == [t |-> "NoneType"]
Fl(f) == [t |-> "float", f |-> f]
PyInt(i) == [t |-> "int", i |-> i]
Str(s) == [t |-> "str", s |-> s]
Bool(b) == [t |-> "bool", b |-> b]
Ref(r) == [t |-> "Vector2", ref |-> r]
Tuple(a, b) == [t |-> "tuple", items |-> <<a, b>>]
TupleIter(a, b) == [t |-> "tuple_iterator", items |-> <<a, b>>]
\* A raised exception: its class, its message's fixed text and the value the
\* message formats in (as a string; "" when there is none).
Raise(exc, text, arg) == [t |-> "raise", exc |-> exc, text |-> text, arg |-> arg]

NoCall == [op |-> "none", self |-> 0, arg |-> None, out |-> None]

Min(a, b) == IF a < b THEN a ELSE b

RECURSIVE SeqsUpTo(_)
SeqsUpTo(n) ==
    IF n = 0 THEN {<<>>}
    ELSE LET S == SeqsUpTo(n - 1)
         IN  S \cup {Append(s, c) : s \in {t \in S : Len(t) = n - 1}, c \in Chars}

(***************************************************************************)
(* buffered_read                                                           *)
(***************************************************************************)

\* file.read() with no size: the whole rest of the stream.
ReadAll(f, p, n) == SubSeq(f, p + 1, Len(f))

\* file.read(bufsize) for a positive bufsize: the next bufsize characters of
\* the stream, fewer at the end of the stream, none after it.
ReadChunk(f, p, n) == SubSeq(f, p + 1, Min(p + n, Len(f)))

\* `while buf := ...`: the loop goes on while the chunk is non-empty.
LoopContinues(b) == b # <<>>

\* An inner loop that stops one character early.
ChunkExhaustedEarly(b, i) == i >= Len(b)

\* `yield from buf` / `for char in buf`: the inner iteration over the chunk is
\* over when every character of it has been yielded.
ChunkExhausted(b, i) == i > Len(b)

InitRead ==
    /\ file \in SeqsUpTo(MaxLen)
    /\ bufsize \in 1..MaxBuf
    /\ pos = 0
    /\ buf = <<>>
    /\ bi = 1
    /\ pc = "created"
    /\ out = <<>>
    /\ reads = 0
    /\ emptyReads = 0
    /\ heap = <<>>
    /\ ctor = <<>>
    /\ held = 0
    /\ last = NoCall

\* The consumer asks for the next character: next() on the generator. The
\* first request starts the body, a later one resumes it after the yield.
Resume ==
    /\ pc \in {"created", "suspended"}
    /\ pc' = IF pc = "created" THEN "loop" ELSE "iter"
    /\ UNCHANGED <<file, bufsize, pos, buf, bi, out, reads, emptyReads, vvars>>

\* `while buf := file.read(bufsize)`: one read, then the loop test.
Read ==
    /\ pc = "loop"
    /\ LET b == ReadChunk(file, pos, bufsize)
       IN  /\ buf' = b
           /\ pos' = pos + Len(b)
           /\ reads' = reads + 1
           /\ emptyReads' = IF b = <<>> THEN emptyReads + 1 ELSE emptyReads
           /\ pc' = IF LoopContinues(b) THEN "iter" ELSE "done"
    /\ bi' = 1
    /\ UNCHANGED <<file, bufsize, out, vvars>>

\* The inner loop yields the next character of the chunk and suspends.
YieldChar ==
    /\ pc = "iter"
    /\ ~ChunkExhausted(buf, bi)
    /\ out' = Append(out, buf[bi])
    /\ bi' = bi + 1
    /\ pc' = "suspended"
    /\ UNCHANGED <<file, bufsize, pos, buf, reads, emptyReads, vvars>>

\* The chunk is used up: back to the while loop's read.
ChunkEnd ==
    /\ pc = "iter"
    /\ ChunkExhausted(buf, bi)
    /\ pc' = "loop"
    /\ UNCHANGED <<file, bufsize, pos, buf, bi, out, reads, emptyReads, vvars>>

NextRead == Resume \/ Read \/ YieldChar \/ ChunkEnd

SpecRead == InitRead /\ [][NextRead]_vars

(***************************************************************************)
(* Claims about buffered_read                                              *)
(***************************************************************************)
IsPrefix(s, t) == Len(s) <= Len(t) /\ SubSeq(t, 1, Len(s)) = s

\* C1: for every stream and positive bufsize the characters yielded so far
\* are a prefix of the stream (each character once, in stream order), and
\* when the generator has ended the yielded sequence is the whole stream.
C1_YieldsStream ==
    /\ IsPrefix(out, file)
    /\ (pc = "done" => out = file)

\* C1's case: a stream that is not a multiple of bufsize, longer than one
\* chunk, has been read to its end.
C1_Witness ==
    /\ pc = "done"
    /\ Len(file) > bufsize
    /\ Len(file) % bufsize # 0
    /\ bufsize > 1
    /\ out = file

\* Characters read from the stream and not yet yielded.
Pending == pos - Len(out)

\* C10: at most bufsize characters are read and not yet yielded; a read is
\* issued only when every character read before has been yielded; nothing is
\* read before the first request; the first empty read ends the generator
\* and no read follows it.
C10_LazyBounded ==
    /\ [](Pending >= 0 /\ Pending <= bufsize)
    /\ [](pc = "created" => reads = 0 /\ pos = 0)
    /\ [](emptyReads <= 1 /\ (pc = "done" <=> emptyReads = 1))
    /\ [][reads' # reads => Pending = 0 /\ pc # "created" /\ emptyReads = 0]_vars
    /\ [][pc = "done" => pc' = "done" /\ reads' = reads]_vars

\* C10's case: a second chunk has been read, after the first was yielded
\* whole, and a full chunk is pending.
C10_Witness ==
    /\ reads = 2
    /\ Pending = bufsize
    /\ bufsize > 1
    /\ Len(out) = bufsize

(***************************************************************************)
(* Floats. A Python float is an IEEE-754 binary64; the model keeps the     *)
(* format and its rounding and shrinks the widths: FBits significand bits, *)
(* every finite float an integer multiple n of 2^-FFrac with at most FBits *)
(* significant bits, round to nearest, ties to even, overflow to infinity, *)
(* underflow to zero through the subnormals (n < 2^(FBits-1)). The sign of *)
(* zero is not modelled: no operation of Vector2 raises or compares        *)
(* differently on -0.0.                                                    *)
(***************************************************************************)
RECURSIVE Pow2(_)
Pow2(n) == IF n = 0 THEN 1 ELSE 2 * Pow2(n - 1)

One == Pow2(FFrac)                          \* n of 1.0
MaxN == (Pow2(FBits) - 1) * Pow2(FExp)      \* n of the largest finite float

Fin(n) == [k |-> "fin", n |-> n]
Inf(sgn) == [k |-> "inf", n |-> sgn]
NaN == [k |-> "nan", n |-> 0]

IsNaN(a) == a.k = "nan"
IsInf(a) == a.k = "inf"
IsFin(a) == a.k = "fin"
Sgn(a) == IF a.n < 0 THEN -1 ELSE IF a.n > 0 THEN 1 ELSE 0
Abs(i) == IF i < 0 THEN -i ELSE i

\* The binade of num/den: the least s >= 0 with num/den < 2^FBits * 2^s.
RECURSIVE Shift(_, _, _)
Shift(num, den, s) ==
    IF num < Pow2(FBits) * den * Pow2(s) THEN s ELSE Shift(num, den, s + 1)

\* num/den (num >= 0, den > 0) rounded to the nearest float, ties to even.
RoundPos(num, den) ==
    LET s == Shift(num, den, 0)
        d == den * Pow2(s)
        q == num \div d
        r == num - q * d
        m == IF 2 * r > d \/ (2 * r = d /\ q % 2 = 1) THEN q + 1 ELSE q
        n == m * Pow2(s)
    IN  IF n > MaxN THEN Inf(1) ELSE Fin(n)

FNeg(a) == IF IsNaN(a) THEN NaN ELSE [k |-> a.k, n |-> -a.n]

\* num/den (den > 0) rounded to a float.
Round(num, den) ==
    IF num < 0 THEN FNeg(RoundPos(-num, den)) ELSE RoundPos(num, den)

\* a + b
FAdd(a, b) ==
    IF IsNaN(a) \/ IsNaN(b) THEN NaN
    ELSE IF IsInf(a) /\ IsInf(b) THEN (IF a.n = b.n THEN a ELSE NaN)
    ELSE IF IsInf(a) THEN a
    ELSE IF IsInf(b) THEN b
    ELSE Round(a.n + b.n, 1)

\* a - b
FSub(a, b) == FAdd(a, FNeg(b))

\* a * b: never raises; overflow gives an infinity, inf * 0 gives nan.
FMul(a, b) ==
    IF IsNaN(a) \/ IsNaN(b) THEN NaN
    ELSE IF IsInf(a) \/ IsInf(b)
         THEN (IF Sgn(a) * Sgn(b) = 0 THEN NaN ELSE Inf(Sgn(a) * Sgn(b)))
    ELSE Round(a.n * b.n, One)

\* a / b raises ZeroDivisionError when b == 0.0, whatever a is.
FDivRaises(a, b) == IsFin(b) /\ b.n = 0

\* a / b for b # 0.0.
FDiv(a, b) ==
    IF IsNaN(a) \/ IsNaN(b) THEN NaN
    ELSE IF IsInf(a) THEN (IF IsInf(b) THEN NaN ELSE Inf(Sgn(a) * Sgn(b)))
    ELSE IF IsInf(b) THEN Fin(0)
    ELSE Round(a.n * One * Sgn(b), Abs(b.n))

\* a == b on floats: nan equals nothing, itself included.
FEq(a, b) == ~IsNaN(a) /\ ~IsNaN(b) /\ a = b

\* a == 0 (the int 0): true of 0.0 only.
FIsZero(a) == IsFin(a) /\ a.n = 0

\* floor(sqrt(i)) of a natural number.
ISqrt(i) == CHOOSE r \in 0..i : r * r <= i /\ (r + 1) * (r + 1) > i

\* The binade of sqrt(N): the least s >= 0 with sqrt(N) < 2^FBits * 2^s.
RECURSIVE SqrtShift(_, _)
SqrtShift(N, s) ==
    IF N < Pow2(FBits) * Pow2(FBits) * Pow2(s) * Pow2(s) THEN s
    ELSE SqrtShift(N, s + 1)

\* math.sqrt on the values x*x + y*y takes (never negative): correctly
\* rounded; nan and +inf map to themselves.
FSqrt(a) ==
    IF IsNaN(a) THEN NaN
    ELSE IF IsInf(a) THEN a
    ELSE LET N == a.n * One
             s == SqrtShift(N, 0)
             q == ISqrt(N \div (Pow2(s) * Pow2(s)))
             h == (2 * q + 1) * (2 * q + 1) * Pow2(s) * Pow2(s)
             m == IF 4 * N > h \/ (4 * N = h /\ q % 2 = 1) THEN q + 1 ELSE q
         IN  Fin(m * Pow2(s))

\* math.acos raises ValueError("math domain error") outside [-1, 1]
\* (infinities included); nan maps to nan without error.
AcosRaises(a) == ~IsNaN(a) /\ (IsInf(a) \/ Abs(a.n) > One)

\* The value of a libm function is kept symbolic: the function applied to
\* its float arguments.
Libm(fn, args) == [k |-> "libm", n |-> 0, fn |-> fn, args |-> args]

(***************************************************************************)
(* Vector2. A method is an operator on the heap h, the receiver self (an   *)
(* index of h) and its argument; it gives the heap after the call and the  *)
(* value returned or the exception raised.                                 *)
(***************************************************************************)
Ret(h, v) == [heap |-> h, out |-> v]

\* Vector2(vx, vy): a new object holding the two components verbatim.
New(h, vx, vy) == [heap |-> Append(h, [x |-> vx, y |-> vy]), out |-> Ref(Len(h) + 1)]

TypeError(text, other) == Raise("TypeError", text, other.t)
ValueError(text) == Raise("ValueError", text, "")
ZeroDivisionError == Raise("ZeroDivisionError", "float division by zero", "")

x(h, self) == h[self].x
y(h, self) == h[self].y

is_zero(h, self) == FIsZero(h[self].x) /\ FIsZero(h[self].y)

square_magnitude(h, self) ==
    FAdd(FMul(h[self].x, h[self].x), FMul(h[self].y, h[self].y))

magnitude(h, self) ==
    FSqrt(FAdd(FMul(h[self].x, h[self].x), FMul(h[self].y, h[self].y)))

\* A __truediv__ that answers a zero divisor with infinities and nans.
TruedivIEEE(h, self, other) ==
    IF other.t = "float"
    THEN LET q(a) == IF FDivRaises(a, other.f)
                     THEN (IF FIsZero(a) \/ IsNaN(a) THEN NaN ELSE Inf(Sgn(a)))
                     ELSE FDiv(a, other.f)
         IN  New(h, q(h[self].x), q(h[self].y))
    ELSE Ret(h, TypeError("Vector2 cannot be divided by type", other))

__truediv__(h, self, other) ==
    IF other.t = "float"
    THEN IF FDivRaises(h[self].x, other.f) \/ FDivRaises(h[self].y, other.f)
         THEN Ret(h, ZeroDivisionError)
         ELSE New(h, FDiv(h[self].x, other.f), FDiv(h[self].y, other.f))
    ELSE Ret(h, TypeError("Vector2 cannot be divided by type", other))

normalized(h, self) ==
    IF is_zero(h, self)
    THEN Ret(h, ValueError("Cannot normalize zero-vector."))
    ELSE __truediv__(h, self, Fl(magnitude(h, self)))

dot(h, self, other) ==
    FAdd(FMul(h[self].x, x(h, other.ref)), FMul(h[self].y, y(h, other.ref)))

cross(h, self, other) ==
    FSub(FMul(h[self].x, y(h, other.ref)), FMul(h[self].y, x(h, other.ref)))

angle(h, self) ==
    IF is_zero(h, self)
    THEN Ret(h, ValueError("Cannot get angle of zero-vector."))
    ELSE Ret(h, Fl(Libm("atan2", <<h[self].y, h[self].x>>)))

angle_between(h, self, other) ==
    IF is_zero(h, self) \/ is_zero(h, other.ref)
    THEN Ret(h, ValueError("Cannot get angle of zero-vector."))
    ELSE LET d == dot(h, self, other)
             m == FMul(magnitude(h, self), magnitude(h, other.ref))
         IN  IF FDivRaises(d, m) THEN Ret(h, ZeroDivisionError)
             ELSE IF AcosRaises(FDiv(d, m))
             THEN Ret(h, ValueError("math domain error"))
             ELSE Ret(h, Fl(Libm("acos", <<FDiv(d, m)>>)))

\* An updated() that stores into the receiver and returns it.
UpdatedInPlace(h, self, kw) ==
    LET new_x == IF kw.x.t = "NoneType" THEN h[self].x ELSE kw.x.f
        new_y == IF kw.y.t = "NoneType" THEN h[self].y ELSE kw.y.f
    IN  [heap |-> [h EXCEPT ![self] = [x |-> new_x, y |-> new_y]],
         out |-> Ref(self)]

updated(h, self, kw) ==
    LET new_x == IF kw.x.t = "NoneType" THEN h[self].x ELSE kw.x.f
        new_y == IF kw.y.t = "NoneType" THEN h[self].y ELSE kw.y.f
    IN  New(h, new_x, new_y)

\* An __eq__ that answers False for a value of another type.
EqLenient(h, self, other) ==
    IF other.t = "Vector2"
    THEN Ret(h, Bool(FEq(h[self].x, x(h, other.ref))
                     /\ FEq(h[self].y, y(h, other.ref))))
    ELSE Ret(h, Bool(FALSE))

__eq__(h, self, other) ==
    IF other.t = "Vector2"
    THEN Ret(h, Bool(FEq(h[self].x, x(h, other.ref))
                     /\ FEq(h[self].y, y(h, other.ref))))
    ELSE Ret(h, TypeError("Vector2 cannot be compared to type", other))

__bool__(h, self) == Ret(h, Bool(is_zero(h, self)))

__len__(h, self) == Ret(h, PyInt(2))

__hash__(h, self) == Ret(h, Tuple(x(h, self), y(h, self)))

\* hash(v): the builtin calls type(v).__hash__(v) and raises TypeError
\* unless that returns an int.
BuiltinHash(h, self) ==
    LET r == __hash__(h, self)
    IN  IF r.out.t = "int" THEN r
        ELSE Ret(h, Raise("TypeError", "__hash__ method should return an integer", ""))

__add__(h, self, other) ==
    IF other.t = "Vector2"
    THEN New(h, FAdd(h[self].x, x(h, other.ref)), FAdd(h[self].y, y(h, other.ref)))
    ELSE Ret(h, TypeError("cannot be added to Vector2", other))

__sub__(h, self, other) ==
    IF other.t = "Vector2"
    THEN New(h, FSub(h[self].x, x(h, other.ref)), FSub(h[self].y, y(h, other.ref)))
    ELSE Ret(h, TypeError("cannot be subtracted from Vector2", other))

\* The (other - self) of distance(): its temporary vector is unreachable
\* once the magnitude is taken, and is not kept on the heap.
distance(h, self, other) ==
    LET d == __sub__(h, other.ref, Ref(self))
    IN  Ret(h, Fl(magnitude(d.heap, d.out.ref)))

\* A __mul__ that raises ValueError for a Vector2 operand.
MulVectorValueError(h, self, other) ==
    IF other.t = "float"
    THEN New(h, FMul(h[self].x, other.f), FMul(h[self].y, other.f))
    ELSE IF other.t = "Vector2"
    THEN Ret(h, ValueError("Vector products should be calculated with the Vector2.dot() method."))
    ELSE Ret(h, TypeError("Vector2 cannot be multiplied by type", other))

\* A __mul__ that scales y by the operand twice.
MulScalesTwice(h, self, other) ==
    IF other.t = "float"
    THEN New(h, FMul(h[self].x, other.f), FMul(FMul(h[self].y, other.f), other.f))
    ELSE IF other.t = "Vector2"
    THEN Ret(h, Raise("TypeError", "Vector products should be calculated with the Vector2.dot() method.", ""))
    ELSE Ret(h, TypeError("Vector2 cannot be multiplied by type", other))

__mul__(h, self, other) ==
    IF other.t = "float"
    THEN New(h, FMul(h[self].x, other.f), FMul(h[self].y, other.f))
    ELSE IF other.t = "Vector2"
    THEN Ret(h, Raise("TypeError", "Vector products should be calculated with the Vector2.dot() method.", ""))
    ELSE Ret(h, TypeError("Vector2 cannot be multiplied by type", other))

__neg__(h, self) == New(h, FNeg(h[self].x), FNeg(h[self].y))

__abs__(h, self) == Ret(h, Fl(magnitude(h, self)))

\* A __getitem__ that takes negative indices as a sequence would.
GetitemWraps(h, self, idx) ==
    IF idx.i = 0 \/ idx.i = -2 THEN Ret(h, Fl(h[self].x))
    ELSE IF idx.i = 1 \/ idx.i = -1 THEN Ret(h, Fl(h[self].y))
    ELSE Ret(h, Raise("IndexError",
                      "Vector2 only has indicies [0, 1] for attributes [x, y], not",
                      ToString(idx.i)))

__getitem__(h, self, idx) ==
    IF idx.i = 0 THEN Ret(h, Fl(h[self].x))
    ELSE IF idx.i = 1 THEN Ret(h, Fl(h[self].y))
    ELSE Ret(h, Raise("IndexError",
                      "Vector2 only has indicies [0, 1] for attributes [x, y], not",
                      ToString(idx.i)))

__iter__(h, self) == Ret(h, TupleIter(h[self].x, h[self].y))

__copy__(h, self) == New(h, h[self].x, h[self].y)

(***************************************************************************)
(* The caller: constructs up to MaxVecs vectors from the input components  *)
(* and calls the methods on them, with the vectors it holds and the input  *)
(* values as operands. It looks at the result of a call, then lets go of   *)
(* it before the next call.                                                *)
(***************************************************************************)
\* Components given to the constructor: zero, the smallest positive float,
\* ordinary values, the largest float, an infinity and a nan.
InVecs ==
    { [x |-> Fin(0), y |-> Fin(0)],
      [x |-> Fin(1), y |-> Fin(0)],
      [x |-> Fin(One), y |-> Fin(0)],
      [x |-> Fin(One), y |-> Fin(2 * One)],
      [x |-> Fin(-One), y |-> Fin(3 * One)],
      [x |-> Fin(0), y |-> Fin(MaxN)],
      [x |-> Inf(1), y |-> Fin(One)],
      [x |-> NaN, y |-> Fin(One)] }

InFloats == {Fl(Fin(0)), Fl(Fin(2 * One)), Fl(NaN)}
NonFloats == {PyInt(2), None, Str("v")}
Kwargs == {[t |-> "kwargs", x |-> a, y |-> b] : a, b \in {None, Fl(Fin(2 * One))}}

\* The objects the caller holds, and the vectors among a call's operands.
Base == SubSeq(heap, 1, held)
BaseCtor == SubSeq(ctor, 1, held)
Selves == 1..held
Vecs == {Ref(r) : r \in 1..held}
Objects == Vecs \cup InFloats \cup NonFloats

InitVec ==
    /\ heap = <<>>
    /\ ctor = <<>>
    /\ held = 0
    /\ last = NoCall
    /\ file = <<>>
    /\ bufsize = 1
    /\ pos = 0
    /\ buf = <<>>
    /\ bi = 1
    /\ pc = "created"
    /\ out = <<>>
    /\ reads = 0
    /\ emptyReads = 0

\* v = Vector2(vx, vy) (__init__), kept by the caller.
Construct ==
    /\ last = NoCall
    /\ held < MaxVecs
    /\ \E v \in InVecs :
          LET r == New(heap, v.x, v.y)
          IN  /\ heap' = r.heap
              /\ ctor' = Append(ctor, v)
              /\ held' = held + 1
    /\ UNCHANGED <<last, rvars>>

\* The caller lets go of the result of the last call; a vector the call
\* constructed is garbage from then on.
Discard ==
    /\ last # NoCall
    /\ heap' = Base
    /\ ctor' = BaseCtor
    /\ last' = NoCall
    /\ UNCHANGED <<held, rvars>>

\* The effect of one call whose method gave r: the heap is the one the
\* method left, with the objects it constructed recorded in ctor.
Call(op, self, arg, r) ==
    /\ last = NoCall
    /\ heap' = r.heap
    /\ ctor' = ctor \o SubSeq(r.heap, held + 1, Len(r.heap))
    /\ last' = [op |-> op, self |-> self, arg |-> arg, out |-> r.out]
    /\ UNCHANGED <<held, rvars>>

Call_x == \E s \in Selves : Call("x", s, None, Ret(heap, Fl(x(heap, s))))
Call_y == \E s \in Selves : Call("y", s, None, Ret(heap, Fl(y(heap, s))))
Call_is_zero ==
    \E s \in Selves : Call("is_zero", s, None, Ret(heap, Bool(is_zero(heap, s))))
Call_square_magnitude ==
    \E s \in Selves :
        Call("square_magnitude", s, None, Ret(heap, Fl(square_magnitude(heap, s))))
Call_magnitude ==
    \E s \in Selves : Call("magnitude", s, None, Ret(heap, Fl(magnitude(heap, s))))
Call_normalized == \E s \in Selves : Call("normalized", s, None, normalized(heap, s))
Call_dot ==
    \E s \in Selves, o \in Vecs : Call("dot", s, o, Ret(heap, Fl(dot(heap, s, o))))
Call_cross ==
    \E s \in Selves, o \in Vecs : Call("cross", s, o, Ret(heap, Fl(cross(heap, s, o))))
Call_angle == \E s \in Selves : Call("angle", s, None, angle(heap, s))
Call_angle_between ==
    \E s \in Selves, o \in Vecs : Call("angle_between", s, o, angle_between(heap, s, o))
Call_distance ==
    \E s \in Selves, o \in Vecs : Call("distance", s, o, distance(heap, s, o))
Call_updated ==
    \E s \in Selves, kw \in Kwargs : Call("updated", s, kw, updated(heap, s, kw))
Call_eq == \E s \in Selves, o \in Objects : Call("__eq__", s, o, __eq__(heap, s, o))
Call_bool == \E s \in Selves : Call("__bool__", s, None, __bool__(heap, s))
Call_len == \E s \in Selves : Call("__len__", s, None, __len__(heap, s))
Call_hash == \E s \in Selves : Call("hash", s, None, BuiltinHash(heap, s))
Call_add == \E s \in Selves, o \in Objects : Call("__add__", s, o, __add__(heap, s, o))
Call_sub == \E s \in Selves, o \in Objects : Call("__sub__", s, o, __sub__(heap, s, o))
Call_mul == \E s \in Selves, o \in Objects : Call("__mul__", s, o, __mul__(heap, s, o))
Call_truediv ==
    \E s \in Selves, o \in Objects : Call("__truediv__", s, o, __truediv__(heap, s, o))
Call_neg == \E s \in Selves : Call("__neg__", s, None, __neg__(heap, s))
Call_abs == \E s \in Selves : Call("__abs__", s, None, __abs__(heap, s))
Call_getitem ==
    \E s \in Selves, i \in (-MaxIdx)..MaxIdx :
        Call("__getitem__", s, PyInt(i), __getitem__(heap, s, PyInt(i)))
Call_iter == \E s \in Selves : Call("__iter__", s, None, __iter__(heap, s))
Call_copy == \E s \in Selves : Call("__copy__", s, None, __copy__(heap, s))

NextVec ==
    \/ Construct \/ Discard
    \/ Call_x \/ Call_y \/ Call_is_zero \/ Call_square_magnitude \/ Call_magnitude
    \/ Call_normalized \/ Call_dot \/ Call_cross \/ Call_angle \/ Call_angle_between
    \/ Call_distance \/ Call_updated \/ Call_eq \/ Call_bool \/ Call_len
    \/ Call_hash \/ Call_add \/ Call_sub \/ Call_mul \/ Call_truediv \/ Call_neg
    \/ Call_abs \/ Call_getitem \/ Call_iter \/ Call_copy

SpecVec == InitVec /\ [][NextVec]_vars

(***************************************************************************)
(* Claims about Vector2                                                    *)
(***************************************************************************)
\* The specification's error kinds are Python's exception classes.
InvalidOperation == "ValueError"
TypeMismatch == "TypeError"
IndexOutOfRange == "IndexError"

Op(o) == last.op = o
Failed == last.out.t = "raise"
FailedWith(exc) == last.out.t = "raise" /\ last.out.exc = exc
Self == heap[last.self]
Other == heap[last.arg.ref]
\* The call returned a vector, newly constructed with these components.
ReturnsNew(vx, vy) ==
    /\ last.out.t = "Vector2"
    /\ last.out.ref = held + 1
    /\ Len(heap) = held + 1
    /\ heap[held + 1] = [x |-> vx, y |-> vy]

\* C2: every live vector holds the components it was constructed with,
\* after calls that return and calls that raise alike, and a vector a call
\* returns is a new object, none of those the caller held.
C2_Immutable ==
    /\ Len(heap) = Len(ctor)
    /\ \A i \in 1..Len(heap) : heap[i] = ctor[i]
    /\ last.out.t = "Vector2" => last.out.ref = held + 1 /\ Len(heap) = held + 1

\* C2's case: two held vectors were added; the sum is a third object and
\* differs from both operands.
C2_Witness ==
    /\ Op("__add__")
    /\ last.arg.t = "Vector2"
    /\ last.arg.ref # last.self
    /\ last.out.t = "Vector2"
    /\ heap[last.out.ref] # Self
    /\ heap[last.out.ref] # Other

DotMessage == "Vector products should be calculated with the Vector2.dot() method."

C4_Equality ==
    Op("__eq__") =>
        /\ last.arg.t = "Vector2" =>
              last.out = Bool(FEq(Self.x, Other.x) /\ FEq(Self.y, Other.y))
        /\ last.arg.t # "Vector2" =>
              /\ FailedWith(TypeMismatch)
              /\ last.out.t # "bool"

\* C4's case: a vector was compared to an int.
C4_Witness ==
    /\ Op("__eq__")
    /\ last.arg = PyInt(2)
    /\ FailedWith(TypeMismatch)

\* C5 as stated: dividing by the float 0.0 does not fail; divide fails, with
\* TypeMismatch, only when the operand is not a float.
C5_Original ==
    Op("__truediv__") =>
        /\ Failed <=> last.arg.t # "float"
        /\ Failed => FailedWith(TypeMismatch)

\* C5 amended: dividing by the float 0.0 fails with ZeroDivisionError, raised
\* by the float division itself (Vector2 does not guard it), and returns no
\* vector; dividing by any other float returns the componentwise quotient;
\* divide fails with TypeMismatch exactly when the operand is not a float.
C5_DivErrors ==
    Op("__truediv__") =>
        /\ FailedWith(TypeMismatch) <=> last.arg.t # "float"
        /\ FailedWith("ZeroDivisionError") <=>
              (last.arg.t = "float" /\ FIsZero(last.arg.f))
        /\ (last.arg.t = "float" /\ ~FIsZero(last.arg.f)) =>
              ReturnsNew(FDiv(Self.x, last.arg.f), FDiv(Self.y, last.arg.f))

\* C5's case: a non-zero vector was divided by 0.0.
C5_Witness ==
    /\ Op("__truediv__")
    /\ last.arg = Fl(Fin(0))
    /\ ~is_zero(heap, last.self)
    /\ FailedWith("ZeroDivisionError")

\* C6: normalized() and angle() fail with InvalidOperation exactly when the
\* receiver is_zero(), angle_between(other) exactly when the receiver or
\* other is_zero(); for a zero vector normalized() fails before it divides,
\* and for every non-zero vector it returns self / magnitude().
C6_ZeroGuards ==
    /\ Op("normalized") =>
          /\ FailedWith(InvalidOperation) <=> is_zero(heap, last.self)
          /\ ~is_zero(heap, last.self) =>
                LET m == magnitude(heap, last.self)
                IN  /\ ~FDivRaises(Self.x, m)
                    /\ ReturnsNew(FDiv(Self.x, m), FDiv(Self.y, m))
    /\ Op("angle") =>
          (FailedWith(InvalidOperation) <=> is_zero(heap, last.self))
    /\ Op("angle_between") =>
          (FailedWith(InvalidOperation) <=>
              (is_zero(heap, last.self) \/ is_zero(heap, last.arg.ref)))

\* C7: v[0] is x, v[1] is y, every other integer index, negative ones
\* included, raises IndexOutOfRange with the index in its message; the
\* valid indices are 0 .. len(v) - 1 with len(v) = 2.
C7_Indexing ==
    Op("__getitem__") =>
        /\ last.arg.i = 0 => last.out = Fl(Self.x)
        /\ last.arg.i = 1 => last.out = Fl(Self.y)
        /\ last.arg.i \notin {0, 1} =>
              /\ FailedWith(IndexOutOfRange)
              /\ last.out.arg = ToString(last.arg.i)
        /\ ~Failed <=> last.arg.i \in 0..(__len__(heap, last.self).out.i - 1)
        /\ __len__(heap, last.self).out = PyInt(2)

\* C7's case: the index -1 was tried.
C7_Witness ==
    /\ Op("__getitem__")
    /\ last.arg.i = -1
    /\ FailedWith(IndexOutOfRange)
    /\ last.out.arg = "-1"

\* C8: hash(v) succeeds with an integer, and every held vector with the
\* same components hashes to the same value.
C8_HashSucceeds ==
    Op("hash") =>
        /\ ~Failed
        /\ last.out.t = "int"
        /\ \A r \in 1..held :
              (FEq(heap[r].x, Self.x) /\ FEq(heap[r].y, Self.y)) =>
                  BuiltinHash(heap, r).out = last.out

\* a * 2.0 == a + a, for the product a * 2.0 the last call returned.
DoubleEqualsSum ==
    LET s == __add__(heap, last.self, Ref(last.self))
        e == __eq__(s.heap, last.out.ref, s.out)
    IN  /\ last.out.t = "Vector2"
        /\ s.out.t = "Vector2"
        /\ e.out = Bool(TRUE)

\* C9 as stated: for every vector a, a * 2.0 == a + a.
C9_Original ==
    (Op("__mul__") /\ last.arg = Fl(Fin(2 * One))) => DoubleEqualsSum

\* C9 amended: for every vector a with no NaN component, infinite and
\* overflowing components included, a * 2.0 == a + a; with a NaN component
\* both operations succeed and the comparison is false.
C9_DoubleIsSum ==
    (Op("__mul__") /\ last.arg = Fl(Fin(2 * One))) =>
        IF IsNaN(Self.x) \/ IsNaN(Self.y)
        THEN LET s == __add__(heap, last.self, Ref(last.self))
             IN  /\ last.out.t = "Vector2"
                 /\ s.out.t = "Vector2"
                 /\ __eq__(s.heap, last.out.ref, s.out).out = Bool(FALSE)
        ELSE DoubleEqualsSum

\* C9's case: a vector with two non-zero finite components was doubled.
C9_Witness ==
    /\ Op("__mul__")
    /\ last.arg = Fl(Fin(2 * One))
    /\ IsFin(Self.x) /\ Self.x.n # 0
    /\ IsFin(Self.y) /\ Self.y.n # 0
    /\ heap[last.out.ref] # Self
    /\ DoubleEqualsSum

====
